---- MODULE Spec2Model ----
(***************************************************************************)
(* Model of cohydra's profile derivation (src/cohydra/profile.py and       *)
(* src/cohydra/util.py): a filesystem with directories, regular files and  *)
(* symlinks, ConvertProfile.generate with its worker pool, and             *)
(* FilterProfile.generate.                                                 *)
(*                                                                         *)
(* A path is a sequence of names.  Absolute paths start with the top       *)
(* directory of the parent profile ("S") or of the profile itself ("D").   *)
(* The filesystem fs maps every existing physical path to its entry.       *)
(***************************************************************************)
EXTENDS Integers, Sequences, FiniteSets, TLC

VARIABLES
  fs,                 \* the filesystem: physical path -> entry
  fs0,                \* the filesystem as it was when the current pass began
  ord,                \* directory-listing order of os.scandir (TRUE: NameSeq)
  select,             \* ConvertProfile.select_cb: source file relpath -> name or None
  pc,                 \* position of the main process inside generate
  pass,               \* number of generate passes started
  todo,               \* items the select_and_symlink generator has not reached yet
  cur,                \* the tuple select_and_symlink yielded last
  relpath_dst_to_src, \* ConvertProfile.convert: map from dst relpath to src relpath
  units,              \* results: the conversion units submitted to the pool
  invoked,            \* source relpaths convert_cb was invoked on in this pass
  prevOk,             \* the pass before the current one ended successfully
  touched,            \* source files whose mtime changed since the last pass ended
  passTouched,        \* value of touched when the current pass began
  err,                \* exception that ended the pass, "" if none
  fstack,             \* FilterProfile.filter_dir: the activation records
  fsel,               \* FilterProfile.select_cb: source relpath -> decision
  calls,              \* number of calls of FilterProfile.select_cb in this pass
  errDir,             \* dst_relpath of the filter_dir activation that raised
  parent,             \* Profile._parent of every profile created, 0 for None
  children,           \* Profile._children of every profile created
  gstack,             \* activation records of Profile.generate_all
  glog,               \* calls of generate and returns from it, in order
  ret,                \* the last call of Profile.src_path and what it returned or raised
  scan_dir_first,     \* recursive_scandir: the argument of the running scan
  scan_rest,          \* recursive_scandir: what the generator has yet to yield
  yielded,            \* recursive_scandir: the relative paths yielded so far
  stree,              \* sanitizing: source directory -> its listing
  sframes,            \* sanitizing: activation records of filter_dir
  sdirs,              \* sanitizing: the destination directories made
  links,              \* sanitizing: destination path -> source path it links to
  changes             \* changes of the source tree and of select_cb between passes

vars == <<fs, fs0, ord, select, pc, pass, todo, cur, relpath_dst_to_src, units,
          invoked, prevOk, touched, passTouched, err, fstack, fsel, calls, errDir,
          parent, children, gstack, glog, ret,
          scan_dir_first, scan_rest, yielded, stree, sframes, sdirs, links,
          changes>>

treeVars == <<parent, children, gstack, glog, ret>>

\* The variables of the specifications other than Spec and SpecFilter.
scanVars == <<scan_dir_first, scan_rest, yielded>>

sanitizeVars == <<stree, sframes, sdirs, links>>

auxVars == <<treeVars, scanVars, sanitizeVars, changes>>

(***************************************************************************)
(* Bounds                                                                  *)
(***************************************************************************)
MaxPasses == 2      \* generate passes per behaviour
MaxMtime == 2       \* modification times of source files are 1..MaxMtime
MaxChanges == 2     \* deletions and selection changes per behaviour
MaxTouch == 1       \* source files touched between two passes

(***************************************************************************)
(* Paths and entries                                                       *)
(***************************************************************************)
SrcTop == "S"
DstTop == "D"

\* Order in which os.scandir lists names when ord is TRUE.
NameSeq == <<"a", "b", "c", "d", "o">>

None == "-"
NoPath == <<>>

src_path(relpath) == <<SrcTop>> \o relpath
dst_path(relpath) == <<DstTop>> \o relpath

dirname(p) == SubSeq(p, 1, Len(p) - 1)
basename(p) == p[Len(p)]

File(m, g) == [kind |-> "file", mtime |-> m, gen |-> g, target |-> NoPath]
Dir(m)     == [kind |-> "dir",  mtime |-> m, gen |-> 0, target |-> NoPath]
Link(t)    == [kind |-> "link", mtime |-> 0, gen |-> 0, target |-> t]

\* Modification time of anything written or created by a pass: the current
\* time, later than the modification time of every source file.
FreshMtime == MaxMtime + 1

IsPrefix(p, q) == Len(p) <= Len(q) /\ SubSeq(q, 1, Len(p)) = p

Reverse(s) == [i \in 1..Len(s) |-> s[Len(s) + 1 - i]]

Restrict(f, S) == [p \in S |-> f[p]]

Put(f, p, e) == [q \in DOMAIN f \cup {p} |-> IF q = p THEN e ELSE f[q]]

(***************************************************************************)
(* Path resolution: the physical path a path names.  Symlinks in the       *)
(* directory part are followed; a symlink in the last component is         *)
(* followed only when followLast.  The result is NoPath when a directory   *)
(* component does not exist or is no directory.                            *)
(***************************************************************************)
RECURSIVE Walk(_, _, _, _, _)
Walk(f, done, rest, followLast, fuel) ==
  IF rest = <<>> THEN done
  ELSE LET nxt  == Append(done, Head(rest))
           last == Len(rest) = 1
       IN IF nxt \notin DOMAIN f
          THEN (IF last /\ done # <<>> THEN nxt ELSE NoPath)
          ELSE IF f[nxt].kind = "link" /\ (~last \/ followLast)
          THEN (IF fuel = 0 THEN NoPath
                ELSE Walk(f, <<>>, f[nxt].target \o Tail(rest), followLast, fuel - 1))
          ELSE IF ~last /\ f[nxt].kind # "dir" THEN NoPath
          ELSE Walk(f, nxt, Tail(rest), followLast, fuel)

RealPath(f, p, followLast) == Walk(f, <<>>, p, followLast, Cardinality(DOMAIN f))

lexists(f, p) == RealPath(f, p, FALSE) \in DOMAIN f
exists(f, p)  == RealPath(f, p, TRUE) \in DOMAIN f
isdir(f, p)   == exists(f, p) /\ f[RealPath(f, p, TRUE)].kind = "dir"
islink(f, p)  == lexists(f, p) /\ f[RealPath(f, p, FALSE)].kind = "link"
isreg(f, p)   == lexists(f, p) /\ f[RealPath(f, p, FALSE)].kind = "file"

\* os.scandir(p): the names in directory p, in listing order.
scandir(f, p, o) ==
  LET r == RealPath(f, p, TRUE)
  IN SelectSeq(IF o THEN NameSeq ELSE Reverse(NameSeq),
               LAMBDA n : Append(r, n) \in DOMAIN f)

(***************************************************************************)
(* Filesystem operations                                                   *)
(***************************************************************************)
\* Creating or removing the entry at physical path r changes the
\* modification time of the directory that holds it.
touch_parent(f, r) ==
  IF dirname(r) \in DOMAIN f THEN [f EXCEPT ![dirname(r)].mtime = FreshMtime] ELSE f

\* os.remove(p): unlink the file or symlink p names (the last component is
\* not followed).
remove(f, p) ==
  LET r == RealPath(f, p, FALSE)
  IN IF r \in DOMAIN f /\ f[r].kind # "dir"
     THEN Restrict(touch_parent(f, r), DOMAIN f \ {r}) ELSE f

\* os.rmdir(p): remove the empty directory p.
rmdirOk(f, p) ==
  LET r == RealPath(f, p, FALSE)
  IN r \in DOMAIN f /\ f[r].kind = "dir"
     /\ \A q \in DOMAIN f : IsPrefix(r, q) => q = r

rmdir(f, p) ==
  LET r == RealPath(f, p, FALSE)
  IN IF rmdirOk(f, p) THEN Restrict(touch_parent(f, r), DOMAIN f \ {r}) ELSE f

\* shutil.rmtree(p): remove directory p and everything physically beneath
\* it; symlinks beneath it are unlinked, never followed.
rmtree(f, p) ==
  LET r == RealPath(f, p, FALSE)
  IN IF r \in DOMAIN f
     THEN Restrict(touch_parent(f, r), {q \in DOMAIN f : ~IsPrefix(r, q)}) ELSE f

\* os.makedirs(p, exist_ok=True): missing parents are created first.
RECURSIVE makedirs(_, _)
makedirs(f, p) ==
  IF Len(p) <= 1 \/ exists(f, p) THEN f
  ELSE LET f1 == makedirs(f, dirname(p))
           r  == RealPath(f1, p, TRUE)
       IN IF r = NoPath \/ r \in DOMAIN f1 THEN f1
          ELSE Put(touch_parent(f1, r), r, Dir(FreshMtime))

\* os.symlink(target, p)
symlinkOk(f, p) == RealPath(f, p, FALSE) # NoPath /\ ~lexists(f, p)

symlink(f, target, p) ==
  LET r == RealPath(f, p, FALSE)
  IN IF symlinkOk(f, p) THEN Put(touch_parent(f, r), r, Link(target)) ELSE f

\* Opening p for writing, as a conversion routine does: the last component
\* is followed, so writing to a symlink writes to the file it points to.
writable(f, p) ==
  LET r == RealPath(f, p, TRUE)
  IN r # NoPath /\ (r \in DOMAIN f => f[r].kind = "file")

write(f, p, g) ==
  LET r == RealPath(f, p, TRUE)
  IN Put(IF r \in DOMAIN f THEN f ELSE touch_parent(f, r), r, File(FreshMtime, g))

\* shutil.copystat(s, d): both paths are followed.
copystatOk(f, s, d) == exists(f, s) /\ exists(f, d)

copystat(f, s, d) ==
  LET rs == RealPath(f, s, TRUE)
      rd == RealPath(f, d, TRUE)
  IN IF copystatOk(f, s, d) THEN [f EXCEPT ![rd].mtime = f[rs].mtime] ELSE f

(***************************************************************************)
(* util.recursive_scandir                                                  *)
(***************************************************************************)
\* os.DirEntry.is_dir() with its default follow_symlinks=True.
is_dir(f, p) == isdir(f, p)

RECURSIVE recursive_scandir_f(_, _, _, _, _)
RECURSIVE recursive_scandir_entries(_, _, _, _, _, _)
\* The loop over os.scandir(path) inside f.
recursive_scandir_entries(f, top_dir, relpath, names, dir_first, o) ==
  IF names = <<>> THEN <<>>
  ELSE LET entry_relpath == Append(relpath, Head(names))
       IN (IF is_dir(f, <<top_dir>> \o entry_relpath)
           THEN recursive_scandir_f(f, top_dir, entry_relpath, dir_first, o)
           ELSE <<entry_relpath>>)
          \o recursive_scandir_entries(f, top_dir, relpath, Tail(names), dir_first, o)

\* The inner generator f(relpath, dir_entry); dir_entry is None exactly for
\* the top directory, whose relpath is empty.
recursive_scandir_f(f, top_dir, relpath, dir_first, o) ==
  (IF dir_first /\ relpath # <<>> THEN <<relpath>> ELSE <<>>)
  \o recursive_scandir_entries(f, top_dir, relpath,
                               scandir(f, <<top_dir>> \o relpath, o), dir_first, o)
  \o (IF ~dir_first /\ relpath # <<>> THEN <<relpath>> ELSE <<>>)

\* The relative paths recursive_scandir yields on an unchanging tree.
recursive_scandir(f, top_dir, dir_first, o) ==
  recursive_scandir_f(f, top_dir, <<>>, dir_first, o)

(***************************************************************************)
(* ConvertProfile.clean.  The walk and the removals alternate, so the      *)
(* walk is over the tree as the removals leave it; st is [fs, ok].         *)
(***************************************************************************)
\* Body of the loop in clean for one yielded dst_relpath.
clean_visit(st, dst_relpath, dst_keep) ==
  LET p == dst_path(dst_relpath)
  IN IF ~st.ok \/ dst_relpath \in dst_keep THEN st
     ELSE IF isdir(st.fs, p) /\ ~islink(st.fs, p)
     THEN (IF rmdirOk(st.fs, p) THEN [st EXCEPT !.fs = rmdir(st.fs, p)]
           ELSE [st EXCEPT !.ok = FALSE])
     ELSE [st EXCEPT !.fs = remove(st.fs, p)]

RECURSIVE clean_f(_, _, _, _)
RECURSIVE clean_entries(_, _, _, _, _)
clean_entries(st, relpath, names, dst_keep, o) ==
  IF names = <<>> \/ ~st.ok THEN st
  ELSE LET entry_relpath == Append(relpath, Head(names))
           st1 == IF is_dir(st.fs, dst_path(entry_relpath))
                  THEN clean_f(st, entry_relpath, dst_keep, o)
                  ELSE clean_visit(st, entry_relpath, dst_keep)
       IN clean_entries(st1, relpath, Tail(names), dst_keep, o)

\* recursive_scandir(self.dst_path(), dir_first=False) driving clean.
clean_f(st, relpath, dst_keep, o) ==
  LET st1 == clean_entries(st, relpath, scandir(st.fs, dst_path(relpath), o),
                           dst_keep, o)
  IN IF relpath # <<>> THEN clean_visit(st1, relpath, dst_keep) ELSE st1

\* clean that removes nothing.
clean_none(f, dst_keep, o) == [fs |-> f, ok |-> TRUE]

clean(f, dst_keep, o) == clean_f([fs |-> f, ok |-> TRUE], <<>>, dst_keep, o)

(***************************************************************************)
(* util.fix_dir_stats                                                      *)
(***************************************************************************)
RECURSIVE fix_dir_stats_loop(_, _)
fix_dir_stats_loop(st, relpaths) ==
  IF relpaths = <<>> \/ ~st.ok THEN st
  ELSE LET dst_relpath == Head(relpaths)
           s == src_path(dst_relpath)
           d == dst_path(dst_relpath)
           st1 == IF ~is_dir(st.fs, d) THEN st
                  ELSE IF copystatOk(st.fs, s, d)
                  THEN [st EXCEPT !.fs = copystat(st.fs, s, d)]
                  ELSE [st EXCEPT !.ok = FALSE]
       IN fix_dir_stats_loop(st1, Tail(relpaths))

\* fix_dir_stats that copies no stats.
fix_dir_stats_none(f, o) == [fs |-> f, ok |-> TRUE]

fix_dir_stats(f, o) ==
  fix_dir_stats_loop([fs |-> f, ok |-> TRUE], recursive_scandir(f, DstTop, TRUE, o))

(***************************************************************************)
(* ConvertProfile.select_and_symlink: the generator's work for one item    *)
(* of recursive_scandir(self.src_path(), dir_first=True), up to its yield. *)
(* The result is the filesystem it leaves and the tuple it yields.         *)
(***************************************************************************)
Yield(f, s, d, c) == [fs |-> f, item |-> [src |-> s, dst |-> d, convert |-> c]]

\* select_dir that removes nothing before it makes the directory.
select_dir_noremove(f, src_relpath) ==
  Yield(makedirs(f, dst_path(src_relpath)), src_relpath, src_relpath, FALSE)

\* src_entry.is_dir(): create the directory.
select_dir(f, src_relpath) ==
  LET d  == dst_path(src_relpath)
      f1 == IF lexists(f, d) /\ (~isdir(f, d) \/ islink(f, d))
            THEN remove(f, d) ELSE f
  IN Yield(makedirs(f1, d), src_relpath, src_relpath, FALSE)

\* select_link that leaves a symlink to the source file where it is.
select_link_keep(f, src_relpath) ==
  LET d  == dst_path(src_relpath)
      f1 == IF isdir(f, d) /\ ~islink(f, d) THEN rmtree(f, d)
            ELSE IF lexists(f, d) THEN remove(f, d)
            ELSE f
  IN IF islink(f, d) /\ f[RealPath(f, d, FALSE)].target = src_path(src_relpath)
     THEN Yield(f, src_relpath, src_relpath, FALSE)
     ELSE Yield(symlink(f1, src_path(src_relpath), d), src_relpath, src_relpath, FALSE)

\* select_cb returned None: replace whatever is there with a symlink.
select_link(f, src_relpath) ==
  LET d  == dst_path(src_relpath)
      f1 == IF isdir(f, d) /\ ~islink(f, d) THEN rmtree(f, d)
            ELSE IF lexists(f, d) THEN remove(f, d)
            ELSE f
  IN Yield(symlink(f1, src_path(src_relpath), d), src_relpath, src_relpath, FALSE)

\* select_convert with the removal of a stale file or symlink forgotten.
select_convert_keepstale(f, src_relpath, dst_relpath) ==
  LET d == dst_path(dst_relpath)
      src_mtime == f[RealPath(f, src_path(src_relpath), TRUE)].mtime
      dst_stat  == f[RealPath(f, d, FALSE)]
  IN IF ~lexists(f, d) THEN Yield(f, src_relpath, dst_relpath, TRUE)
     ELSE IF dst_stat.kind = "dir"
     THEN Yield(rmtree(f, d), src_relpath, dst_relpath, TRUE)
     ELSE IF dst_stat.kind = "file" /\ src_mtime = dst_stat.mtime
     THEN Yield(f, src_relpath, dst_relpath, FALSE)
     ELSE Yield(f, src_relpath, dst_relpath, TRUE)

\* select_convert that takes every regular file for up to date.
select_convert_anyfile(f, src_relpath, dst_relpath) ==
  LET d == dst_path(dst_relpath)
      dst_stat == f[RealPath(f, d, FALSE)]
  IN IF ~lexists(f, d) THEN Yield(f, src_relpath, dst_relpath, TRUE)
     ELSE IF dst_stat.kind = "dir"
     THEN Yield(rmtree(f, d), src_relpath, dst_relpath, TRUE)
     ELSE IF dst_stat.kind = "file"
     THEN Yield(f, src_relpath, dst_relpath, FALSE)
     ELSE Yield(remove(f, d), src_relpath, dst_relpath, TRUE)

\* select_cb returned dst_relpath: is the converted file up to date?
select_convert(f, src_relpath, dst_relpath) ==
  LET d == dst_path(dst_relpath)
      src_mtime == f[RealPath(f, src_path(src_relpath), TRUE)].mtime
      dst_stat  == f[RealPath(f, d, FALSE)]
  IN IF ~lexists(f, d) THEN Yield(f, src_relpath, dst_relpath, TRUE)
     ELSE IF dst_stat.kind = "dir"
     THEN Yield(rmtree(f, d), src_relpath, dst_relpath, TRUE)
     ELSE IF dst_stat.kind = "file" /\ src_mtime = dst_stat.mtime
     THEN Yield(f, src_relpath, dst_relpath, FALSE)
     ELSE Yield(remove(f, d), src_relpath, dst_relpath, TRUE)

select_and_symlink(f, sel, src_relpath) ==
  IF is_dir(f, src_path(src_relpath)) THEN select_dir(f, src_relpath)
  ELSE IF sel[src_relpath] = None THEN select_link(f, src_relpath)
  ELSE select_convert(f, src_relpath,
                      Append(dirname(src_relpath), sel[src_relpath]))

(***************************************************************************)
(* The worker pool                                                         *)
(***************************************************************************)
\* multiprocessing.Pool.terminate(): units that have not finished never do.
terminate(us) ==
  [i \in 1..Len(us) |->
     IF us[i].st \in {"queued", "converted"} THEN [us[i] EXCEPT !.st = "killed"]
     ELSE us[i]]

NoResult == [call |-> [node |-> 0, relpath |-> <<>>],
             result |-> [raised |-> "", path |-> <<>>]]

NoItem == [src |-> <<>>, dst |-> <<>>, convert |-> FALSE]

PoolOpen == pc \in {"select", "check", "wait"}

(***************************************************************************)
(* Initial states: a source tree with two files and a directory holding    *)
(* one file, every selection function of SelectFns, and a destination      *)
(* directory left in any of the shapes of DstTrees.                        *)
(***************************************************************************)
SrcFiles == {<<"a">>, <<"b">>, <<"d", "a">>}

SrcTree ==
  (<<SrcTop>> :> Dir(1)) @@ (<<DstTop>> :> Dir(1))
  @@ (src_path(<<"a">>) :> File(1, 0)) @@ (src_path(<<"b">>) :> File(1, 0))
  @@ (src_path(<<"d">>) :> Dir(1)) @@ (src_path(<<"d", "a">>) :> File(1, 0))

SelectFns ==
  {sel \in [SrcFiles -> {None, "a", "c", "d"}] :
     /\ sel[<<"a">>] \in {None, "c"}
     /\ sel[<<"d", "a">>] \in {None, "c"}}

\* Leftovers at D/c: nothing, a file with any source mtime, or a directory.
DstC ==
  {<<>>} \cup {dst_path(<<"c">>) :> File(m, 0) : m \in 1..MaxMtime}
         \cup {dst_path(<<"c">>) :> Dir(1)}

\* Leftovers at D/d: nothing, a directory (empty or holding an up-to-date
\* converted file), or a symlink to the source directory.
DstD ==
  {<<>>, dst_path(<<"d">>) :> Dir(1),
   (dst_path(<<"d">>) :> Dir(1)) @@ (dst_path(<<"d", "c">>) :> File(1, 0)),
   dst_path(<<"d">>) :> Link(src_path(<<"d">>))}

\* Leftovers at D/o: nothing, or a symlink to a directory of the source or
\* of the destination.
DstO ==
  {<<>>, dst_path(<<"o">>) :> Link(src_path(<<"d">>)),
   dst_path(<<"o">>) :> Link(dst_path(<<"d">>))}

DstTrees == {c @@ d @@ o : c \in DstC, d \in DstD, o \in DstO}

InitCommon ==
  /\ ord \in BOOLEAN
  /\ pc = "idle"
  /\ pass = 0
  /\ todo = <<>>
  /\ cur = NoItem
  /\ relpath_dst_to_src = <<>>
  /\ units = <<>>
  /\ invoked = {}
  /\ prevOk = FALSE
  /\ touched = {}
  /\ passTouched = {}
  /\ err = ""
  /\ fstack = <<>>
  /\ calls = 0
  /\ errDir = <<>>
  /\ parent = <<>>
  /\ children = <<>>
  /\ gstack = <<>>
  /\ glog = <<>>
  /\ ret = NoResult
  /\ scan_dir_first = TRUE
  /\ scan_rest = <<>>
  /\ yielded = <<>>
  /\ sframes = <<>>
  /\ sdirs = {}
  /\ links = <<>>
  /\ changes = <<>>

Init ==
  /\ InitCommon
  /\ stree = <<>>
  /\ fs \in {SrcTree @@ t : t \in DstTrees}
  /\ fs0 = fs
  /\ select \in SelectFns
  /\ fsel = <<>>

filterVars == <<fstack, fsel, calls, errDir>>

(***************************************************************************)
(* ConvertProfile.generate                                                 *)
(***************************************************************************)
\* generate is called: convert() opens the pool and creates the generator.
StartPass ==
  /\ DOMAIN select # {}
  /\ pc \in {"idle", "done", "failed"}
  /\ pass < MaxPasses
  /\ pass' = pass + 1
  /\ pc' = "select"
  /\ fs0' = fs
  /\ todo' = recursive_scandir(fs, SrcTop, TRUE, ord)
  /\ cur' = NoItem
  /\ relpath_dst_to_src' = <<>>
  /\ units' = <<>>
  /\ invoked' = {}
  /\ prevOk' = (pc = "done")
  /\ passTouched' = touched
  /\ touched' = {}
  /\ err' = ""
  /\ UNCHANGED <<fs, ord, select, filterVars, auxVars>>

\* convert() asks the generator for its next tuple.
SelectStep ==
  /\ pc = "select"
  /\ todo # <<>>
  /\ LET r == select_and_symlink(fs, select, Head(todo))
     IN /\ fs' = r.fs
        /\ cur' = r.item
  /\ todo' = Tail(todo)
  /\ pc' = "check"
  /\ UNCHANGED <<fs0, ord, select, pass, relpath_dst_to_src, units, invoked,
                 prevOk, touched, passTouched, err, filterVars, auxVars>>

\* The generator is exhausted: convert() goes on to "for result in results".
SelectEnd ==
  /\ pc = "select"
  /\ todo = <<>>
  /\ pc' = "wait"
  /\ UNCHANGED <<fs, fs0, ord, select, pass, todo, cur, relpath_dst_to_src,
                 units, invoked, prevOk, touched, passTouched, err, filterVars, auxVars>>

\* Body of the loop in convert(), duplicate found: RuntimeError leaves the
\* with block, which terminates the pool.
CheckDuplicate ==
  /\ pc = "check"
  /\ cur.dst \in DOMAIN relpath_dst_to_src
  /\ pc' = "failed"
  /\ err' = "RuntimeError"
  /\ units' = terminate(units)
  /\ UNCHANGED <<fs, fs0, ord, select, pass, todo, cur, relpath_dst_to_src,
                 invoked, prevOk, touched, passTouched, filterVars, auxVars>>

\* MaySubmit without the duplicate check.
MaySubmit_Always(item, dst_to_src) == TRUE

\* Whether convert() may submit the tuple it holds.
MaySubmit(item, dst_to_src) == item.dst \notin DOMAIN dst_to_src

\* record keyed by the source path instead of the destination path.
record_by_src(dst_to_src, item) == (item.src :> item.dst) @@ dst_to_src

\* record that leaves out symlinks, directories and up-to-date files.
record_conversions(dst_to_src, item) ==
  IF item.convert THEN (item.dst :> item.src) @@ dst_to_src ELSE dst_to_src

\* relpath_dst_to_src[dst_relpath] = src_relpath
record(dst_to_src, item) == (item.dst :> item.src) @@ dst_to_src

\* Body of the loop in convert(), no duplicate: record the destination and
\* submit a unit when conversion is needed.
CheckSubmit ==
  /\ pc = "check"
  /\ MaySubmit(cur, relpath_dst_to_src)
  /\ relpath_dst_to_src' = record(relpath_dst_to_src, cur)
  /\ units' = IF cur.convert
              THEN Append(units, [src |-> cur.src, dst |-> cur.dst, st |-> "queued"])
              ELSE units
  /\ pc' = "select"
  /\ UNCHANGED <<fs, fs0, ord, select, pass, todo, cur, invoked, prevOk,
                 touched, passTouched, err, filterVars, auxVars>>

\* raised with the unit queued again for another attempt.
raised_retry(u) == [u EXCEPT !.st = "queued"]

\* convert_one raises in a worker: the exception is stored in the unit's
\* result, which result.get() will re-raise.
raised(u) == [u EXCEPT !.st = "failed"]

\* convert_one_failed that still copies the stats of the source.
convert_one_failed_copystat(f, src_relpath, dst_relpath, g) ==
  copystat(write(f, dst_path(dst_relpath), g),
           src_path(src_relpath), dst_path(dst_relpath))

\* convert_one when convert_cb raises after writing to dst_path: the
\* exception leaves convert_one before shutil.copystat.
convert_one_failed(f, src_relpath, dst_relpath, g) ==
  write(f, dst_path(dst_relpath), g)

\* convert_one in a worker: convert_cb runs and leaves a file, or raises
\* (leaving what it wrote so far when it could write at all).
UnitConvert(i) ==
  /\ PoolOpen
  /\ units[i].st = "queued"
  /\ invoked' = invoked \cup {units[i].src}
  /\ LET d == dst_path(units[i].dst)
     IN IF writable(fs, d)
        THEN \/ /\ fs' = write(fs, d, pass)
                /\ units' = [units EXCEPT ![i].st = "converted"]
             \/ /\ fs' = convert_one_failed(fs, units[i].src, units[i].dst, pass)
                /\ units' = [units EXCEPT ![i] = raised(@)]
        ELSE /\ fs' = fs
             /\ units' = [units EXCEPT ![i] = raised(@)]
  /\ UNCHANGED <<fs0, ord, select, pc, pass, todo, cur, relpath_dst_to_src,
                 prevOk, touched, passTouched, err, filterVars, auxVars>>

\* convert_one in a worker: shutil.copystat after convert_cb returned.
UnitCopystat(i) ==
  /\ PoolOpen
  /\ units[i].st = "converted"
  /\ LET s == src_path(units[i].src)
         d == dst_path(units[i].dst)
     IN IF copystatOk(fs, s, d)
        THEN /\ fs' = copystat(fs, s, d)
             /\ units' = [units EXCEPT ![i].st = "done"]
        ELSE /\ fs' = fs
             /\ units' = [units EXCEPT ![i] = raised(@)]
  /\ UNCHANGED <<fs0, ord, select, pc, pass, todo, cur, relpath_dst_to_src,
                 invoked, prevOk, touched, passTouched, err, filterVars, auxVars>>

\* AllDone that waits for nothing.
AllDone_NoWait(us) == TRUE

\* "for result in results: result.get()" has returned from every get.
AllDone(us) == \A i \in 1..Len(us) : us[i].st = "done"

JoinOk ==
  /\ pc = "wait"
  /\ AllDone(units)
  /\ pc' = "clean"
  /\ UNCHANGED <<fs, fs0, ord, select, pass, todo, cur, relpath_dst_to_src,
                 units, invoked, prevOk, touched, passTouched, err, filterVars, auxVars>>

\* result.get() re-raises the exception of the first unit, in submission
\* order, that has not finished successfully.
JoinFail ==
  /\ pc = "wait"
  /\ \E i \in 1..Len(units) :
       /\ units[i].st = "failed"
       /\ \A j \in 1..(i - 1) : units[j].st = "done"
  /\ pc' = "failed"
  /\ err' = "ConvertError"
  /\ units' = terminate(units)
  /\ UNCHANGED <<fs, fs0, ord, select, pass, todo, cur, relpath_dst_to_src,
                 invoked, prevOk, touched, passTouched, filterVars, auxVars>>

\* self.clean(dst_keep)
Clean ==
  /\ pc = "clean"
  /\ LET r == clean(fs, DOMAIN relpath_dst_to_src, ord)
     IN /\ fs' = r.fs
        /\ pc' = IF r.ok THEN "fix" ELSE "failed"
        /\ err' = IF r.ok THEN err ELSE "OSError"
  /\ UNCHANGED <<fs0, ord, select, pass, todo, cur, relpath_dst_to_src, units,
                 invoked, prevOk, touched, passTouched, filterVars, auxVars>>

\* util.fix_dir_stats(self)
FixDirStats ==
  /\ pc = "fix"
  /\ LET r == fix_dir_stats(fs, ord)
     IN /\ fs' = r.fs
        /\ pc' = IF r.ok THEN "done" ELSE "failed"
        /\ err' = IF r.ok THEN err ELSE "OSError"
  /\ UNCHANGED <<fs0, ord, select, pass, todo, cur, relpath_dst_to_src, units,
                 invoked, prevOk, touched, passTouched, filterVars, auxVars>>

\* Between two passes the user changes the modification time of a source
\* file.
Touch(r) ==
  /\ pc \in {"done", "failed"}
  /\ pass < MaxPasses
  /\ Cardinality(touched) < MaxTouch
  /\ r \notin touched
  /\ src_path(r) \in DOMAIN fs
  /\ fs[src_path(r)].kind = "file"
  /\ \E m \in (1..MaxMtime) \ {fs[src_path(r)].mtime} :
       fs' = [fs EXCEPT ![src_path(r)].mtime = m]
  /\ touched' = touched \cup {r}
  /\ UNCHANGED <<fs0, ord, select, pc, pass, todo, cur, relpath_dst_to_src,
                 units, invoked, prevOk, passTouched, err, filterVars, auxVars>>

Next ==
  \/ StartPass
  \/ SelectStep
  \/ SelectEnd
  \/ CheckDuplicate
  \/ CheckSubmit
  \/ \E i \in 1..Len(units) : UnitConvert(i)
  \/ \E i \in 1..Len(units) : UnitCopystat(i)
  \/ JoinOk
  \/ JoinFail
  \/ Clean
  \/ FixDirStats
  \/ \E r \in SrcFiles : Touch(r)

Spec == Init /\ [][Next]_vars

(***************************************************************************)
(* Between two passes of a ConvertProfile the user deletes a file or a     *)
(* directory of the source tree, or select_cb starts to return another     *)
(* destination for a file.  changes records, for every such change, the    *)
(* pass it followed and the destination paths the changed sources had.     *)
(***************************************************************************)
\* The destination path select_and_symlink gives the source entry s.
dst_of(f, sel, s) ==
  IF is_dir(f, src_path(s)) \/ sel[s] = None THEN s
  ELSE Append(dirname(s), sel[s])

\* The source entries at or beneath s, by their relative paths.
src_beneath(f, s) ==
  {Tail(q) : q \in {r \in DOMAIN f : IsPrefix(src_path(s), r)}}

DeleteSource(s) ==
  /\ DOMAIN select # {}
  /\ pc = "done"
  /\ pass < MaxPasses
  /\ Len(changes) < MaxChanges
  /\ src_path(s) \in DOMAIN fs
  /\ fs' = IF is_dir(fs, src_path(s)) THEN rmtree(fs, src_path(s))
            ELSE remove(fs, src_path(s))
  /\ changes' = Append(changes,
                       [pass |-> pass,
                        old |-> {dst_of(fs, select, t) : t \in src_beneath(fs, s)}])
  /\ UNCHANGED <<fs0, ord, select, pc, pass, todo, cur, relpath_dst_to_src,
                 units, invoked, prevOk, touched, passTouched, err, filterVars,
                 treeVars, scanVars, sanitizeVars>>

ChangeSelect(s) ==
  /\ DOMAIN select # {}
  /\ pc = "done"
  /\ pass < MaxPasses
  /\ Len(changes) < MaxChanges
  /\ src_path(s) \in DOMAIN fs
  /\ \E sel \in SelectFns :
       /\ sel[s] # select[s]
       /\ \A t \in SrcFiles \ {s} : sel[t] = select[t]
       /\ select' = sel
  /\ changes' = Append(changes,
                       [pass |-> pass, old |-> {dst_of(fs, select, s)}])
  /\ UNCHANGED <<fs, fs0, ord, pc, pass, todo, cur, relpath_dst_to_src,
                 units, invoked, prevOk, touched, passTouched, err, filterVars,
                 treeVars, scanVars, sanitizeVars>>

\* The first pass finds the destination empty.
InitStale ==
  /\ InitCommon
  /\ stree = <<>>
  /\ fs = SrcTree
  /\ fs0 = fs
  /\ select \in SelectFns
  /\ fsel = <<>>

NextStale ==
  \/ Next
  \/ \E s \in SrcFiles \cup {<<"d">>} : DeleteSource(s)
  \/ \E s \in SrcFiles : ChangeSelect(s)

SpecStale == InitStale /\ [][NextStale]_vars

(***************************************************************************)
(* FilterProfile.clean; st is [fs, ok], ok FALSE once RuntimeError('Cannot *)
(* clean') is raised.                                                      *)
(***************************************************************************)
RECURSIVE filter_clean(_, _, _)
RECURSIVE filter_clean_entries(_, _, _, _)

\* filter_clean_entry that deletes a foreign file instead of raising.
filter_clean_entry_unlink(st, relpath, name, o) ==
  LET p == dst_path(Append(relpath, name))
  IN IF islink(st.fs, p) THEN [st EXCEPT !.fs = remove(st.fs, p)]
     ELSE IF is_dir(st.fs, p)
     THEN LET st1 == filter_clean(st, Append(relpath, name), o)
          IN IF st1.ok THEN [st1 EXCEPT !.fs = rmdir(st1.fs, p)] ELSE st1
     ELSE [st EXCEPT !.fs = remove(st.fs, p)]

\* Body of the loop in FilterProfile.clean for one dst_entry.
filter_clean_entry(st, relpath, name, o) ==
  LET p == dst_path(Append(relpath, name))
  IN IF islink(st.fs, p) THEN [st EXCEPT !.fs = remove(st.fs, p)]
     ELSE IF is_dir(st.fs, p)
     THEN LET st1 == filter_clean(st, Append(relpath, name), o)
          IN IF st1.ok THEN [st1 EXCEPT !.fs = rmdir(st1.fs, p)] ELSE st1
     ELSE [st EXCEPT !.ok = FALSE]

filter_clean_entries(st, relpath, names, o) ==
  IF names = <<>> \/ ~st.ok THEN st
  ELSE filter_clean_entries(filter_clean_entry(st, relpath, Head(names), o),
                            relpath, Tail(names), o)

\* filter_clean that removes nothing.
filter_clean_none(st, relpath, o) == st

filter_clean(st, relpath, o) ==
  filter_clean_entries(st, relpath, scandir(st.fs, dst_path(relpath), o), o)

(***************************************************************************)
(* FilterProfile.select_cb and filter_dir                                  *)
(***************************************************************************)
SrcAll == SrcFiles \cup {<<"d">>}

\* What a selection function may decide for an entry: ignore it, keep it
\* under its name, keep it renamed inside the directory, or keep it renamed
\* into another directory.
Decisions == {"drop", "same", "ren", "cross"}

FilterFns == [SrcAll -> Decisions]

RenamedName == "c"

\* A destination in another directory than dst_relpath.
CrossDst(dst_relpath, name) ==
  IF dst_relpath = <<>> THEN <<"d", name>> ELSE <<name>>

\* The keep-list select_cb returns for a directory: the kept entries in the
\* order of the listing, each with its destination path.
filter_select(f, sel, src_relpath, dst_relpath, o) ==
  LET kept == SelectSeq(scandir(f, src_path(src_relpath), o),
                        LAMBDA n : sel[Append(src_relpath, n)] # "drop")
  IN [i \in 1..Len(kept) |->
        [name |-> kept[i],
         dst  |-> CASE sel[Append(src_relpath, kept[i])] = "same" ->
                         Append(dst_relpath, kept[i])
                    [] sel[Append(src_relpath, kept[i])] = "ren" ->
                         Append(dst_relpath, RenamedName)
                    [] OTHER -> CrossDst(dst_relpath, kept[i])]]

\* across_dirs that accepts every rename.
across_dirs_never(dst_entry_relpath, dst_relpath) == FALSE

\* os.path.dirname(dst_entry_relpath) != dst_relpath
across_dirs(dst_entry_relpath, dst_relpath) ==
  dirname(dst_entry_relpath) # dst_relpath

\* Leftovers in the destination of a FilterProfile: at D/c nothing, a
\* symlink or a regular file; at D/d nothing, a directory (empty, holding a
\* symlink, or holding a regular file) or a symlink to a directory.
FilterDstC ==
  {<<>>, dst_path(<<"c">>) :> Link(src_path(<<"a">>)),
   dst_path(<<"c">>) :> File(1, 0)}

FilterDstD ==
  {<<>>, dst_path(<<"d">>) :> Dir(1),
   (dst_path(<<"d">>) :> Dir(1)) @@ (dst_path(<<"d", "a">>) :> Link(src_path(<<"d", "a">>))),
   (dst_path(<<"d">>) :> Dir(1)) @@ (dst_path(<<"d", "a">>) :> File(1, 0)),
   dst_path(<<"d">>) :> Link(src_path(<<"d">>))}

FilterDstTrees == {c @@ d : c \in FilterDstC, d \in FilterDstD}

InitFilter ==
  /\ InitCommon
  /\ stree = <<>>
  /\ fs \in {SrcTree @@ t : t \in FilterDstTrees}
  /\ fs0 = fs
  /\ select = <<>>
  /\ fsel \in FilterFns

convertVars == <<select, todo, relpath_dst_to_src, units, invoked, prevOk,
                 touched, passTouched>>

\* FilterProfile.generate is called.
FilterStartPass ==
  /\ DOMAIN fsel # {}
  /\ pc \in {"idle", "done", "failed"}
  /\ pass < MaxPasses
  /\ pass' = pass + 1
  /\ pc' = "fclean"
  /\ fs0' = fs
  /\ fstack' = <<>>
  /\ calls' = 0
  /\ err' = ""
  /\ errDir' = <<>>
  /\ cur' = NoItem
  /\ UNCHANGED <<fs, ord, fsel, convertVars, auxVars>>

\* self.clean('')
FilterClean ==
  /\ pc = "fclean"
  /\ LET r == filter_clean([fs |-> fs, ok |-> TRUE], <<>>, ord)
     IN /\ fs' = r.fs
        /\ pc' = IF r.ok THEN "fcall" ELSE "failed"
        /\ err' = IF r.ok THEN err ELSE "RuntimeError"
  /\ UNCHANGED <<fs0, ord, pass, cur, fstack, fsel, calls, errDir, convertVars, auxVars>>

\* filter_dir that makes its destination directory on entry.
filter_dir_enter_mkdir(f, dst_relpath) == makedirs(f, dst_path(dst_relpath))

\* What filter_dir does to the filesystem before its loop over src_keep:
\* nothing, the destination directory is left to the first symlink.
filter_dir_enter(f, dst_relpath) == f

\* filter_dir(src_relpath, dst_relpath) is entered with the arguments in
\* cur: it calls select_cb and starts its loop over src_keep.
FilterCall ==
  /\ pc = "fcall"
  /\ fs' = filter_dir_enter(fs, cur.dst)
  /\ fstack' = <<[src |-> cur.src, dst |-> cur.dst,
                  keep |-> filter_select(fs, fsel, cur.src, cur.dst, ord)]>>
                \o fstack
  /\ calls' = calls + 1
  /\ pc' = "filter"
  /\ UNCHANGED <<fs0, ord, pass, cur, fsel, err, errDir, convertVars, auxVars>>

\* The loop of filter_dir reaches an entry renamed across directories.
FilterRenameError ==
  /\ pc = "filter"
  /\ Head(fstack).keep # <<>>
  /\ across_dirs(Head(Head(fstack).keep).dst, Head(fstack).dst)
  /\ pc' = "failed"
  /\ err' = "NotImplementedError"
  /\ errDir' = Head(fstack).dst
  /\ UNCHANGED <<fs, fs0, ord, pass, cur, fstack, fsel, calls, convertVars, auxVars>>

\* The loop of filter_dir processes one entry of src_keep: a directory is
\* recursed into, anything else is symlinked.
FilterEntry ==
  /\ pc = "filter"
  /\ Head(fstack).keep # <<>>
  /\ LET frame == Head(fstack)
         item  == Head(frame.keep)
         src_entry_relpath == Append(frame.src, item.name)
         rest  == <<[frame EXCEPT !.keep = Tail(frame.keep)]>> \o Tail(fstack)
         f1    == makedirs(fs, dst_path(frame.dst))
     IN /\ ~across_dirs(item.dst, frame.dst)
        /\ fstack' = rest
        /\ IF is_dir(fs, src_path(src_entry_relpath))
           THEN /\ cur' = [src |-> src_entry_relpath, dst |-> item.dst,
                           convert |-> FALSE]
                /\ pc' = "fcall"
                /\ UNCHANGED <<fs, err>>
           ELSE /\ cur' = cur
                /\ IF isdir(f1, dst_path(frame.dst)) /\ symlinkOk(f1, dst_path(item.dst))
                   THEN /\ fs' = symlink(f1, src_path(src_entry_relpath),
                                         dst_path(item.dst))
                        /\ UNCHANGED <<pc, err>>
                   ELSE /\ fs' = f1
                        /\ pc' = "failed"
                        /\ err' = "OSError"
  /\ UNCHANGED <<fs0, ord, pass, fsel, calls, errDir, convertVars, auxVars>>

\* The loop of filter_dir is over: copy the directory's stats and return.
FilterReturn ==
  /\ pc = "filter"
  /\ Head(fstack).keep = <<>>
  /\ LET frame == Head(fstack)
     IN fs' = IF frame.dst # <<>> /\ isdir(fs, dst_path(frame.dst))
              THEN copystat(fs, src_path(frame.src), dst_path(frame.dst))
              ELSE fs
  /\ fstack' = Tail(fstack)
  /\ pc' = IF Tail(fstack) = <<>> THEN "done" ELSE "filter"
  /\ UNCHANGED <<fs0, ord, pass, cur, fsel, calls, err, errDir, convertVars, auxVars>>

\* A deeper source tree for a FilterProfile: a file, and a directory
\* holding a file and a directory with a file of its own.
SrcTreeDeep ==
  (<<SrcTop>> :> Dir(1)) @@ (<<DstTop>> :> Dir(1))
  @@ (src_path(<<"a">>) :> File(1, 0))
  @@ (src_path(<<"d">>) :> Dir(1)) @@ (src_path(<<"d", "a">>) :> File(1, 0))
  @@ (src_path(<<"d", "d">>) :> Dir(1)) @@ (src_path(<<"d", "d", "b">>) :> File(1, 0))

SrcAllDeep == {<<"a">>, <<"d">>, <<"d", "a">>, <<"d", "d">>, <<"d", "d", "b">>}

FilterFnsDeep ==
  {sel \in [SrcAllDeep -> Decisions] :
     /\ sel[<<"d", "d">>] # "cross"
     /\ sel[<<"d", "d", "b">>] \in {"drop", "same"}}

InitFilterDeep ==
  /\ InitCommon
  /\ stree = <<>>
  /\ fs \in {SrcTreeDeep @@ t : t \in FilterDstTrees}
  /\ fs0 = fs
  /\ select = <<>>
  /\ fsel \in FilterFnsDeep

NextFilter ==
  \/ FilterStartPass
  \/ FilterClean
  \/ FilterCall
  \/ FilterRenameError
  \/ FilterEntry
  \/ FilterReturn

SpecFilter == InitFilter /\ [][NextFilter]_vars

SpecFilterDeep == InitFilterDeep /\ [][NextFilter]_vars

(***************************************************************************)
(* The profile tree: Profile.__init__, generate_all, src_path and          *)
(* RootProfile.generate.  Profiles are numbered in the order of their      *)
(* creation; profile n is given the top directory TopDirs[n].              *)
(***************************************************************************)
MaxProfiles == 5    \* profiles created per behaviour

TopDirs == <<"S", "D", "E", "F", "G", "H">>

top_dir(n) == <<TopDirs[n]>>

Profiles == 1..Len(parent)

\* self._parent._children.append(self), with the child put first instead.
add_child_front(ch, p, n) == [ch EXCEPT ![p] = <<n>> \o @]

\* self._parent._children.append(self)
add_child(ch, p, n) == [ch EXCEPT ![p] = Append(@, n)]

\* Profile.src_path without the test for a missing parent.
Profile_src_path_unchecked(n, relpath) ==
  [raised |-> "", path |-> <<TopDirs[IF parent[n] = 0 THEN n ELSE parent[n]]>> \o relpath]

\* Profile.src_path(relpath) of profile n.
Profile_src_path(n, relpath) ==
  IF parent[n] = 0 THEN [raised |-> "RuntimeError", path |-> <<>>]
  ELSE [raised |-> "", path |-> top_dir(parent[n]) \o relpath]

\* generate of a derived profile: it brings its own top directory up to
\* date, which changes at least that directory.
Derived_generate(f, n) == Put(f, top_dir(n), Dir(FreshMtime))

\* RootProfile.generate: pass.
RootProfile_generate(f, n) == f

InitTree ==
  /\ InitCommon
  /\ stree = <<>>
  /\ fs = SrcTree
  /\ fs0 = fs
  /\ select = <<>>
  /\ fsel = <<>>

notTreeVars == <<fs0, ord, pass, todo, cur, select, relpath_dst_to_src, units,
                 invoked, prevOk, touched, passTouched, filterVars, scanVars,
                 sanitizeVars, changes>>

\* Profile.__init__(top_dir, parent): p is 0 for a RootProfile.
NewProfile(p) ==
  /\ pc = "idle"
  /\ Len(parent) < MaxProfiles
  /\ LET n == Len(parent) + 1
     IN /\ parent' = Append(parent, p)
        /\ children' = IF p = 0 THEN Append(children, <<>>)
                       ELSE add_child(Append(children, <<>>), p, n)
  /\ UNCHANGED <<fs, pc, err, gstack, glog, ret, notTreeVars>>

\* Some code calls src_path(relpath) on profile n.
SrcPath(n, relpath) ==
  /\ pc = "idle"
  /\ ret' = [call |-> [node |-> n, relpath |-> relpath],
              result |-> Profile_src_path(n, relpath)]
  /\ UNCHANGED <<fs, pc, err, parent, children, gstack, glog, notTreeVars>>

\* generate_all() is called on profile n.
GenerateAll(n) ==
  /\ pc = "idle"
  /\ pc' = "gen"
  /\ gstack' = <<[node |-> n, at |-> "enter", next |-> 1]>>
  /\ glog' = <<>>
  /\ UNCHANGED <<fs, err, parent, children, ret, notTreeVars>>

\* generate_all: self.generate() is called.
GenerateCall ==
  /\ pc = "gen"
  /\ Head(gstack).at = "enter"
  /\ glog' = Append(glog, [ev |-> "call", node |-> Head(gstack).node])
  /\ gstack' = <<[Head(gstack) EXCEPT !.at = "generate"]>> \o Tail(gstack)
  /\ UNCHANGED <<fs, pc, err, parent, children, ret, notTreeVars>>

\* generate_all: self.generate() does its work and returns.
GenerateReturn ==
  /\ pc = "gen"
  /\ Head(gstack).at = "generate"
  /\ LET n == Head(gstack).node
     IN fs' = IF parent[n] = 0 THEN RootProfile_generate(fs, n)
              ELSE Derived_generate(fs, n)
  /\ glog' = Append(glog, [ev |-> "return", node |-> Head(gstack).node])
  /\ gstack' = <<[Head(gstack) EXCEPT !.at = "loop"]>> \o Tail(gstack)
  /\ UNCHANGED <<pc, err, parent, children, ret, notTreeVars>>

\* propagate with a handler in generate_all that goes on to the children.
propagate_caught(stack) == <<[Head(stack) EXCEPT !.at = "loop"]>> \o Tail(stack)

\* An exception raised by self.generate(): generate_all has no handler, so
\* it leaves every activation of generate_all.
propagate(stack) == <<>>

\* generate_all: self.generate() of a derived profile raises, having done
\* none or some of its work.
GenerateRaise ==
  /\ pc = "gen"
  /\ Head(gstack).at = "generate"
  /\ parent[Head(gstack).node] # 0
  /\ fs' \in {fs, Derived_generate(fs, Head(gstack).node)}
  /\ glog' = Append(glog, [ev |-> "raise", node |-> Head(gstack).node])
  /\ gstack' = propagate(gstack)
  /\ pc' = IF gstack' = <<>> THEN "failed" ELSE pc
  /\ err' = "RuntimeError"
  /\ UNCHANGED <<parent, children, ret, notTreeVars>>

\* generate_all: the loop calls child.generate_all(depth + 1).
ChildGenerateAll ==
  /\ pc = "gen"
  /\ Head(gstack).at = "loop"
  /\ Head(gstack).next <= Len(children[Head(gstack).node])
  /\ gstack' = <<[node |-> children[Head(gstack).node][Head(gstack).next],
                  at |-> "enter", next |-> 1],
                 [Head(gstack) EXCEPT !.next = @ + 1]>> \o Tail(gstack)
  /\ UNCHANGED <<fs, pc, err, parent, children, glog, ret, notTreeVars>>

\* generate_all: the loop is over, generate_all returns.
GenerateAllReturn ==
  /\ pc = "gen"
  /\ Head(gstack).at = "loop"
  /\ Head(gstack).next > Len(children[Head(gstack).node])
  /\ gstack' = Tail(gstack)
  /\ pc' = IF Tail(gstack) = <<>> THEN "done" ELSE pc
  /\ UNCHANGED <<fs, err, parent, children, glog, ret, notTreeVars>>

NextTree ==
  \/ \E p \in 0..Len(parent) : NewProfile(p)
  \/ \E n \in Profiles : \E relpath \in {<<>>, <<"a">>} : SrcPath(n, relpath)
  \/ \E n \in Profiles : GenerateAll(n)
  \/ GenerateCall
  \/ GenerateReturn
  \/ GenerateRaise
  \/ ChildGenerateAll
  \/ GenerateAllReturn

SpecTree == InitTree /\ [][NextTree]_vars

(***************************************************************************)
(* Destinations left in further shapes, for the decisions of               *)
(* select_and_symlink and for the directory stats after either kind of     *)
(* derived profile.                                                        *)
(***************************************************************************)
\* Leftovers at D/a: nothing, a regular file, the symlink a pass makes, or a
\* directory holding a file.
DstA ==
  {<<>>, dst_path(<<"a">>) :> File(1, 0),
   dst_path(<<"a">>) :> Link(src_path(<<"a">>)),
   (dst_path(<<"a">>) :> Dir(1)) @@ (dst_path(<<"a", "a">>) :> File(1, 0))}

\* Leftovers at D/c: those of DstC, a symlink, or a directory holding a file.
DstCMore ==
  DstC \cup {dst_path(<<"c">>) :> Link(src_path(<<"b">>)),
             (dst_path(<<"c">>) :> Dir(1)) @@ (dst_path(<<"c", "a">>) :> File(1, 0))}

InitSelect ==
  /\ InitCommon
  /\ stree = <<>>
  /\ fs \in {SrcTree @@ a @@ c : a \in DstA, c \in DstCMore}
  /\ fs0 = fs
  /\ select \in SelectFns
  /\ fsel = <<>>

SpecSelect == InitSelect /\ [][Next]_vars

\* A ConvertProfile or a FilterProfile.
InitDerived == InitSelect \/ InitFilter

NextDerived == Next \/ NextFilter

SpecDerived == InitDerived /\ [][NextDerived]_vars

(***************************************************************************)
(* util.recursive_scandir on its own: a scan of the directory D, left in   *)
(* any of the shapes of ScanTrees, with either value of dir_first.         *)
(***************************************************************************)
\* At D/a: nothing or a regular file.
ScanA == {<<>>, dst_path(<<"a">>) :> File(1, 0)}

\* At D/d: nothing, or a directory that is empty, holds a file, or holds a
\* file and a directory with a file of its own.
ScanD ==
  {<<>>, dst_path(<<"d">>) :> Dir(1),
   (dst_path(<<"d">>) :> Dir(1)) @@ (dst_path(<<"d", "a">>) :> File(1, 0)),
   (dst_path(<<"d">>) :> Dir(1)) @@ (dst_path(<<"d", "a">>) :> File(1, 0))
     @@ (dst_path(<<"d", "d">>) :> Dir(1)) @@ (dst_path(<<"d", "d", "b">>) :> File(1, 0))}

\* At D/o: nothing, or a symlink to a directory outside D, to the directory
\* D/d, to a regular file, or to nothing.
ScanO ==
  {<<>>, dst_path(<<"o">>) :> Link(src_path(<<"d">>)),
   dst_path(<<"o">>) :> Link(dst_path(<<"d">>)),
   dst_path(<<"o">>) :> Link(src_path(<<"a">>)),
   dst_path(<<"o">>) :> Link(src_path(<<"o">>))}

ScanTrees == {a @@ d @@ o : a \in ScanA, d \in ScanD, o \in ScanO}

InitScan ==
  /\ InitCommon
  /\ stree = <<>>
  /\ fs \in {SrcTree @@ t : t \in ScanTrees}
  /\ fs0 = fs
  /\ select = <<>>
  /\ fsel = <<>>

notScanVars == <<fs, fs0, ord, pass, todo, cur, select, relpath_dst_to_src,
                 units, invoked, prevOk, touched, passTouched, err, filterVars,
                 treeVars, sanitizeVars, changes>>

\* recursive_scandir(top_dir, dir_first) is called on D: it returns the
\* generator f('', None).
ScanStart(df) ==
  /\ pc = "idle"
  /\ pc' = "scan"
  /\ scan_dir_first' = df
  /\ scan_rest' = recursive_scandir(fs, DstTop, df, ord)
  /\ yielded' = <<>>
  /\ UNCHANGED notScanVars

\* The caller takes the next item from the generator.
ScanNext ==
  /\ pc = "scan"
  /\ scan_rest # <<>>
  /\ yielded' = Append(yielded, Head(scan_rest))
  /\ scan_rest' = Tail(scan_rest)
  /\ UNCHANGED <<pc, scan_dir_first, notScanVars>>

\* The generator is exhausted.
ScanEnd ==
  /\ pc = "scan"
  /\ scan_rest = <<>>
  /\ pc' = "done"
  /\ UNCHANGED <<scan_dir_first, scan_rest, yielded, notScanVars>>

NextScan ==
  \/ \E df \in BOOLEAN : ScanStart(df)
  \/ ScanNext
  \/ ScanEnd

SpecScan == InitScan /\ [][NextScan]_vars

(***************************************************************************)
(* SanitizeFilenameProfile.  A filename is the sequence of its characters; *)
(* a character is a string, a control character the string of its code     *)
(* ("0x09").                                                               *)
(***************************************************************************)
\* _forbidden_chars_map: the characters mapped to ''.
ForbiddenDeleted ==
  {"0x00", "0x01", "0x02", "0x03", "0x04", "0x05", "0x06", "0x07", "0x08",
   "0x0B", "0x0C", "0x0E", "0x0F", "0x10", "0x11", "0x12", "0x13", "0x14",
   "0x15", "0x16", "0x17", "0x18", "0x19", "0x1A", "0x1B", "0x1C", "0x1D",
   "0x1E", "0x1F"}

\* _forbidden_chars_map: the characters mapped to '_'.
ForbiddenReplaced ==
  {"0x09", "0x0A", "0x0D", "\"", "*", "/", ":", "<", ">", "?", "\\", "|"}

UpperCase == <<"A", "B", "C", "D", "E", "F", "G", "H", "I", "J", "K", "L", "M",
               "N", "O", "P", "Q", "R", "S", "T", "U", "V", "W", "X", "Y", "Z">>

LowerCase == <<"a", "b", "c", "d", "e", "f", "g", "h", "i", "j", "k", "l", "m",
               "n", "o", "p", "q", "r", "s", "t", "u", "v", "w", "x", "y", "z">>

\* str.casefold(), on the characters a model filename is made of.
casefold(name) ==
  [i \in 1..Len(name) |->
     IF \E k \in 1..Len(UpperCase) : UpperCase[k] = name[i]
     THEN LowerCase[CHOOSE k \in 1..Len(UpperCase) : UpperCase[k] = name[i]]
     ELSE name[i]]

DeviceDigits == {"1", "2", "3", "4", "5", "6", "7", "8", "9"}

\* _reserved_names, casefolded.
ReservedNames ==
  {casefold(n) : n \in {<<"C", "O", "N">>, <<"P", "R", "N">>, <<"A", "U", "X">>,
                        <<"N", "U", "L">>}
                       \cup {<<"C", "O", "M", k>> : k \in DeviceDigits}
                       \cup {<<"L", "P", "T", k>> : k \in DeviceDigits}}

\* str.translate that maps no character.
translate_none(filename) == filename

\* filename.translate(_forbidden_chars_map)
translate(filename) ==
  SelectSeq([i \in 1..Len(filename) |->
               IF filename[i] \in ForbiddenReplaced THEN "_" ELSE filename[i]],
            LAMBDA c : c \notin ForbiddenDeleted)

\* str.partition('.'): the text before the first '.', the '.' and the text
\* after it; the whole string and two empty strings when there is no '.'.
partition(name) ==
  IF \E i \in 1..Len(name) : name[i] = "."
  THEN LET k == CHOOSE i \in 1..Len(name) :
                  name[i] = "." /\ \A j \in 1..(i - 1) : name[j] # "."
       IN [basename |-> SubSeq(name, 1, k - 1), dot |-> <<".">>,
           extension |-> SubSeq(name, k + 1, Len(name))]
  ELSE [basename |-> name, dot |-> <<>>, extension |-> <<>>]

_sanitize_name(filename) ==
  LET t  == translate(filename)
      s1 == IF t \in {<<".">>, <<".", ".">>} THEN Append(t, "_") ELSE t
      pt == partition(s1)
      b  == IF casefold(pt.basename) \in ReservedNames
            THEN Append(pt.basename, "_") ELSE pt.basename
      s2 == b \o pt.dot \o pt.extension
  IN IF s2 # <<>> /\ s2[Len(s2)] \in {".", " "}
     THEN Append(SubSeq(s2, 1, Len(s2) - 1), "_") ELSE s2

\* os.path.join(dst_relpath, sanitized_name) as dst_path resolves it: an
\* empty name gives the directory itself.
sanitized_join(dst_relpath, name) ==
  IF name = <<>> THEN dst_relpath ELSE Append(dst_relpath, name)

\* _sanitize_cb_loop that keeps every entry and looks for no duplicate.
_sanitize_cb_loop_unchecked(dst_relpath, contents, keep, casefolded_names) ==
  [raised |-> "",
   keep |-> keep \o [i \in 1..Len(contents) |->
                       [entry |-> contents[i],
                        dst |-> sanitized_join(dst_relpath,
                                               _sanitize_name(contents[i].name))]]]

RECURSIVE _sanitize_cb_loop(_, _, _, _)
\* The loop of _sanitize_cb over contents.
_sanitize_cb_loop(dst_relpath, contents, keep, casefolded_names) ==
  IF contents = <<>> THEN [raised |-> "", keep |-> keep]
  ELSE LET entry == Head(contents)
           sanitized_name == _sanitize_name(entry.name)
           casefolded_name == casefold(sanitized_name)
       IN IF casefolded_name \in casefolded_names
          THEN [raised |-> "RuntimeError", keep |-> <<>>]
          ELSE _sanitize_cb_loop(
                 dst_relpath, Tail(contents),
                 Append(keep, [entry |-> entry,
                               dst |-> sanitized_join(dst_relpath, sanitized_name)]),
                 casefolded_names \cup {casefolded_name})

_sanitize_cb(dst_relpath, contents) ==
  _sanitize_cb_loop(dst_relpath, contents, <<>>, {})

MaxNameLen == 4     \* characters of a filename drawn from Alphabet

\* An upper-case and a lower-case letter of reserved names, '.', ' ', a
\* forbidden character that is replaced, one that is deleted, and a letter
\* of no reserved name.
Alphabet == {"C", "O", "N", "o", ".", " ", ":", "0x01", "y"}

AllNames == UNION {[1..k -> Alphabet] : k \in 1..MaxNameLen}

\* The filenames of TestSanitizeFilenameProfile.test_sanitization.
TestNames ==
  <<<<":">>, <<"C", "O", "N">>, <<"l", "p", "t", "2", ".", "t", "x", "t">>,
    <<"f", "o", "o", ".">>, <<"o", "k">>>>

\* The filenames of the directories holding more than one entry.
SmallNames == {<<":">>, <<"?">>, <<"A">>, <<"a">>, <<"o", "k">>}

\* The names of the directories: a plain one, one with a replaced character
\* and one made of a deleted control character.
SubDirNames == {<<"d">>, <<"d", ":">>, <<"0x01">>}

FileEntry(n) == [name |-> n, isdir |-> FALSE]
DirEntry(n)  == [name |-> n, isdir |-> TRUE]

\* One or two files with names of SmallNames.
SmallListings ==
  {<<FileEntry(n)>> : n \in SmallNames}
  \cup {<<FileEntry(pr[1]), FileEntry(pr[2])>> :
          pr \in {q \in SmallNames \X SmallNames : q[1] # q[2]}}

\* The source trees: one file of any name; the files of the test; two
\* files; a file and a directory that holds one or two files.
SanitizeTrees ==
  {(<<>> :> <<FileEntry(n)>>) : n \in AllNames}
  \cup {(<<>> :> [i \in 1..Len(TestNames) |-> FileEntry(TestNames[i])])}
  \cup {(<<>> :> l) : l \in SmallListings}
  \cup {(<<>> :> <<FileEntry(n), DirEntry(d)>>) @@ (<<d>> :> l) :
          n \in SmallNames, d \in SubDirNames, l \in SmallListings}
  \cup {(<<>> :> <<DirEntry(d), FileEntry(n)>>) @@ (<<d>> :> l) :
          n \in SmallNames, d \in SubDirNames, l \in SmallListings}

InitSanitize ==
  /\ InitCommon
  /\ fs = SrcTree
  /\ fs0 = fs
  /\ select = <<>>
  /\ fsel = <<>>
  /\ stree \in SanitizeTrees

notSanitizeVars == <<fs, fs0, ord, pass, todo, cur, select, relpath_dst_to_src,
                     units, invoked, prevOk, touched, passTouched, filterVars,
                     treeVars, scanVars, changes>>

\* generate(): clean('') finds the destination empty, then
\* filter_dir('', '') is called.
SanitizeGenerate ==
  /\ pc = "idle"
  /\ pc' = "sanitize"
  /\ sframes' = <<[src |-> <<>>, dst |-> <<>>, at |-> "call", keep |-> <<>>]>>
  /\ UNCHANGED <<err, stree, sdirs, links, notSanitizeVars>>

\* filter_dir: src_keep = self.select_cb(...), which is _sanitize_cb.
SanitizeCb ==
  /\ pc = "sanitize"
  /\ Head(sframes).at = "call"
  /\ LET frame == Head(sframes)
         r == _sanitize_cb(frame.dst, stree[frame.src])
     IN IF r.raised # ""
        THEN /\ pc' = "failed"
             /\ err' = r.raised
             /\ UNCHANGED sframes
        ELSE /\ sframes' = <<[frame EXCEPT !.at = "loop", !.keep = r.keep]>>
                           \o Tail(sframes)
             /\ UNCHANGED <<pc, err>>
  /\ UNCHANGED <<stree, sdirs, links, notSanitizeVars>>

\* The destination directories os.makedirs(dst_path) makes sure of.
Ancestors(d) == {SubSeq(d, 1, k) : k \in 1..Len(d)}

\* filter_dir: the loop handles one entry of src_keep (a sanitized name
\* never names another directory, so the rename check passes).
SanitizeEntry ==
  /\ pc = "sanitize"
  /\ Head(sframes).at = "loop"
  /\ Head(sframes).keep # <<>>
  /\ LET frame == Head(sframes)
         item  == Head(frame.keep)
         src_entry_relpath == Append(frame.src, item.entry.name)
         rest  == <<[frame EXCEPT !.keep = Tail(frame.keep)]>> \o Tail(sframes)
     IN IF item.entry.isdir
        THEN /\ sframes' = <<[src |-> src_entry_relpath, dst |-> item.dst,
                              at |-> "call", keep |-> <<>>]>> \o rest
             /\ UNCHANGED <<pc, err, sdirs, links>>
        ELSE IF \/ Ancestors(frame.dst) \cap DOMAIN links # {}
                \/ item.dst \in DOMAIN links
                \/ item.dst \in sdirs \cup Ancestors(frame.dst) \cup {<<>>}
        THEN /\ pc' = "failed"
             /\ err' = "OSError"
             /\ UNCHANGED <<sframes, sdirs, links>>
        ELSE /\ sdirs' = sdirs \cup Ancestors(frame.dst)
             /\ links' = (item.dst :> src_entry_relpath) @@ links
             /\ sframes' = rest
             /\ UNCHANGED <<pc, err>>
  /\ UNCHANGED <<stree, notSanitizeVars>>

\* filter_dir: the loop is over and filter_dir returns.
SanitizeReturn ==
  /\ pc = "sanitize"
  /\ Head(sframes).at = "loop"
  /\ Head(sframes).keep = <<>>
  /\ sframes' = Tail(sframes)
  /\ pc' = IF Tail(sframes) = <<>> THEN "done" ELSE pc
  /\ UNCHANGED <<err, stree, sdirs, links, notSanitizeVars>>

NextSanitize ==
  \/ SanitizeGenerate
  \/ SanitizeCb
  \/ SanitizeEntry
  \/ SanitizeReturn

SpecSanitize == InitSanitize /\ [][NextSanitize]_vars

(***************************************************************************)
(* Claims                                                                  *)
(***************************************************************************)
Outside(f) == {p \in DOMAIN f : p[1] # DstTop}

OutsideDst(f) == Restrict(f, Outside(f))

\* C1: a generate pass never creates, removes or changes an entry outside
\* the profile's own destination directory; in particular no step of the
\* main process (select_and_symlink, the duplicate check, the join, clean,
\* fix_dir_stats: the steps that move pc) removes or alters an entry of the
\* parent's directory.
C1_NothingOutsideDstChanges ==
  [][pc' # pc => OutsideDst(fs') = OutsideDst(fs)]_vars

\* The regular files of the destination tree: after a successful pass these
\* are the converted files.
DstFiles(f) == {p \in DOMAIN f : p[1] = DstTop /\ f[p].kind = "file"}

dst_keep == DOMAIN relpath_dst_to_src

\* C2: once clean has run, what is left in the destination tree is in the
\* keep set, and every path put into the keep set by this pass (directory,
\* symlink, converted or up-to-date file) still exists: nothing kept or
\* generated in the pass is deleted.
C2_KeptPathsSurviveClean ==
  pc \in {"fix", "done"} =>
    /\ \A p \in DOMAIN fs : (p[1] = DstTop /\ Len(p) > 1) => Tail(p) \in dst_keep
    /\ \A r \in dst_keep : lexists(fs, dst_path(r))

\* C3: a pass that follows a successful pass with no change to the source
\* in between invokes the conversion routine for no file and leaves every
\* converted file of the destination as it was.
C3_SecondPassConvertsNothing ==
  (pass >= 2 /\ prevOk /\ passTouched = {}) =>
    /\ invoked = {}
    /\ pc = "done" => \A p \in DstFiles(fs0) : p \in DOMAIN fs /\ fs[p] = fs0[p]

\* C4: after a successful pass, a change of the modification time of exactly
\* one convert-mapped source file makes the next pass invoke the conversion
\* routine for that file and no other, and no other converted file of the
\* destination is removed or rewritten.
C4_TouchedFileAloneReconverted ==
  \A r \in SrcFiles :
    (pass >= 2 /\ prevOk /\ passTouched = {r} /\ select[r] # None) =>
      /\ invoked \subseteq {r}
      /\ pc = "done" =>
           /\ invoked = {r}
           /\ \A p \in DstFiles(fs0) \ {dst_path(Append(dirname(r), select[r]))} :
                p \in DOMAIN fs /\ fs[p] = fs0[p]

Range(f) == {f[x] : x \in DOMAIN f}

\* The items of the source tree the pass walks, and the destination the
\* pass assigns to each.
SrcItems == Range(recursive_scandir(fs0, SrcTop, TRUE, ord))

MapDst(s) ==
  IF is_dir(fs0, src_path(s)) \/ select[s] = None THEN s
  ELSE Append(dirname(s), select[s])

C6_CleanAfterAllUnits ==
  /\ pc \in {"clean", "fix", "done"} =>
       \A i \in 1..Len(units) : units[i].st = "done"
  /\ (\E i \in 1..Len(units) : units[i].st \in {"failed", "killed"}) =>
       pc \notin {"clean", "fix", "done"}

\* clean is about to run in a pass that submitted two units.
C6_Witness == pc = "clean" /\ Len(units) >= 2

\* C7 as claimed: select_and_symlink has made all its decisions and
\* destination changes before any conversion unit executes.
C7_SelectionDoneBeforeUnitsRun ==
  (\E i \in 1..Len(units) : units[i].st # "queued") => todo = <<>>

\* C7 as amended: select_and_symlink runs interleaved with the pool, but
\* a unit is submitted only by the duplicate check of its own entry, after
\* select_and_symlink has decided that entry and removed whatever was at
\* its destination; select_and_symlink has no item left when the pass is
\* at the join or beyond.
C7_UnitSubmittedAfterOwnSelection ==
  /\ [][Len(units') > Len(units) =>
          /\ pc = "check" /\ cur.convert
          /\ ~lexists(fs, dst_path(cur.dst))
          /\ units' = Append(units, [src |-> cur.src, dst |-> cur.dst,
                                     st |-> "queued"])]_vars
  /\ [](pc \in {"wait", "clean", "fix", "done"} => todo = <<>>)

\* A unit has run its conversion routine while select_and_symlink still
\* has items to process.
C7_Witness ==
  /\ pc = "select" /\ todo # <<>>
  /\ \E i \in 1..Len(units) : units[i].st \in {"converted", "done"}

\* Destinations of the symlinks and directories select_and_symlink has
\* produced in this pass, the one just yielded included.
ProducedLinksAndDirs ==
  {d \in DOMAIN relpath_dst_to_src : MapDst(relpath_dst_to_src[d]) = relpath_dst_to_src[d]}
  \cup (IF pc = "check" /\ ~cur.convert /\ MapDst(cur.src) = cur.src
        THEN {cur.dst} ELSE {})

\* C8 as claimed: at every point of a pass the submitted units have
\* pairwise distinct destinations, none of which is the destination of a
\* symlink or directory produced in the same pass.
C8_UnitDestinationsNeverShared ==
  /\ \A i \in 1..Len(units) : \A j \in 1..Len(units) :
       i # j => units[i].dst # units[j].dst
  /\ \A i \in 1..Len(units) : units[i].dst \notin ProducedLinksAndDirs

\* C8 as amended: the submitted units have pairwise distinct destinations,
\* and relpath_dst_to_src records each unit's destination for that unit's
\* source alone, so no symlink, directory or other unit that passed the
\* duplicate check shares it.
C8_UnitDestinationsRecordedOnce ==
  /\ \A i \in 1..Len(units) : \A j \in 1..Len(units) :
       i # j => units[i].dst # units[j].dst
  /\ \A i \in 1..Len(units) :
       /\ units[i].dst \in DOMAIN relpath_dst_to_src
       /\ relpath_dst_to_src[units[i].dst] = units[i].src

\* select_and_symlink has just produced a symlink or directory at the
\* destination of a unit submitted earlier in the pass.
C8_Witness ==
  /\ pc = "check" /\ ~cur.convert
  /\ \E i \in 1..Len(units) : units[i].dst = cur.dst

DstLinks(f) == {p \in DOMAIN f : p[1] = DstTop /\ f[p].kind = "link"}

\* Entry e1 is entry e2, up to the modification time of a directory (which
\* changes whenever an entry inside it is removed).
SameEntry(e1, e2) == e1 = e2 \/ (e1.kind = "dir" /\ e2.kind = "dir")

\* C9: when the destination tree of a FilterProfile holds, at any depth,
\* an entry that is neither symlink nor directory, generate fails with
\* RuntimeError in clean, the entry stays as it was, select_cb is never
\* called and nothing is created; and a step of clean removes nothing but
\* symlinks and directories it has emptied, and changes nothing else.
C9_ForeignFileStopsFilter ==
  /\ []((pass >= 1 /\ DstFiles(fs0) # {}) =>
          /\ pc \in {"fclean", "failed"}
          /\ pc = "failed" => err = "RuntimeError"
          /\ calls = 0
          /\ \A p \in DstFiles(fs0) : p \in DOMAIN fs /\ fs[p] = fs0[p]
          /\ \A p \in DOMAIN fs : p \in DOMAIN fs0 /\ SameEntry(fs[p], fs0[p]))
  /\ [][pc = "fclean" =>
          /\ \A p \in DOMAIN fs \ DOMAIN fs' :
               \/ fs[p].kind = "link"
               \/ /\ fs[p].kind = "dir"
                  /\ \A q \in DOMAIN fs : IsPrefix(p, q) => q \notin DOMAIN fs'
          /\ \A p \in DOMAIN fs' : p \in DOMAIN fs /\ SameEntry(fs'[p], fs[p])]_vars

\* generate has failed in clean on a regular file inside a directory of the
\* destination, and the file is still there.
C9_Witness ==
  /\ pc = "failed" /\ err = "RuntimeError" /\ calls = 0
  /\ \E p \in DstFiles(fs) : Len(p) = 3

\* C10 as claimed: when filter_dir fails on a rename across directories, the
\* pass has created no symlink or directory in the destination directory
\* being processed.
C10_RenameErrorLeavesDirUntouched ==
  err = "NotImplementedError" =>
    \A p \in DOMAIN fs : IsPrefix(dst_path(errDir), p) => p = dst_path(errDir)

\* C10 as amended: an entry renamed across directories is never symlinked,
\* and when filter_dir reaches it the pass fails with NotImplementedError
\* without having symlinked that entry or any entry after it in the
\* returned list; the entries before it have already been processed.
C10_RenameErrorStopsAtEntry ==
  /\ (pc \in {"fcall", "filter", "done"} \/ err \in {"NotImplementedError", "OSError"}) =>
       \A p \in DstLinks(fs) : \A s \in SrcAll :
         fs[p].target = src_path(s) => fsel[s] # "cross"
  /\ err = "NotImplementedError" =>
       /\ pc = "failed"
       /\ Head(fstack).dst = errDir
       /\ Head(fstack).keep # <<>>
       /\ dirname(Head(Head(fstack).keep).dst) # errDir
       /\ \A i \in 1..Len(Head(fstack).keep) : \A p \in DstLinks(fs) :
            ~IsPrefix(src_path(Append(Head(fstack).src, Head(fstack).keep[i].name)),
                      fs[p].target)

\* filter_dir has failed on a rename across directories after it had
\* already symlinked an earlier entry into the directory being processed.
C10_Witness ==
  /\ err = "NotImplementedError"
  /\ \E p \in DstLinks(fs) : dirname(p) = dst_path(errDir)

\* The profiles created with parent n, in the order of their creation.
CreatedChildren(n) ==
  SelectSeq([i \in 1..Len(parent) |-> i], LAMBDA m : parent[m] = n)

RECURSIVE PreOrderList(_)
RECURSIVE PreOrder(_)
\* n, then the whole subtree of each child, child after child in the order
\* of creation.
PreOrder(n) == <<n>> \o PreOrderList(CreatedChildren(n))

PreOrderList(ns) ==
  IF ns = <<>> THEN <<>> ELSE PreOrder(Head(ns)) \o PreOrderList(Tail(ns))

\* The profiles on which generate has been called, in the order of the calls.
GenerateCalls ==
  LET cs == SelectSeq(glog, LAMBDA e : e.ev = "call")
  IN [i \in 1..Len(cs) |-> cs[i].node]

\* C11: generate_all on a profile calls generate on every profile of its
\* subtree exactly once, in pre-order with the children in the order of
\* their creation, and calls a profile's generate only after the generate
\* of its parent has returned.
C11_GenerateAllPreOrder ==
  pc \in {"gen", "done"} =>
    LET root == IF gstack = <<>> THEN glog[1].node ELSE gstack[Len(gstack)].node
        order == PreOrder(root)
    IN /\ Len(GenerateCalls) <= Len(order)
       /\ GenerateCalls = SubSeq(order, 1, Len(GenerateCalls))
       /\ pc = "done" => GenerateCalls = order
       /\ \A i \in 1..Len(glog) :
            (glog[i].ev = "call" /\ glog[i].node # root) =>
               \E j \in 1..(i - 1) :
                 glog[j] = [ev |-> "return", node |-> parent[glog[i].node]]

\* generate_all has returned for a root with two children, the first of
\* which has a child of its own that was created after the second.
C11_Witness ==
  /\ pc = "done"
  /\ Len(parent) = 4 /\ parent = <<0, 1, 1, 2>>
  /\ GenerateCalls = <<1, 2, 4, 3>>

\* The directories beneath the top directory of the destination.
DstDirs(f) == {p \in DOMAIN f : p[1] = DstTop /\ Len(p) > 1 /\ f[p].kind = "dir"}

\* The destination path a FilterProfile gives the source directory s.
filter_dst(s) ==
  IF fsel[s] = "ren" THEN Append(dirname(s), RenamedName) ELSE s

\* The source directories the destination directory at dst_relpath
\* corresponds to: the one at the same relative path for a ConvertProfile,
\* the ones filter_dir derived it from for a FilterProfile.
SrcDirsOf(dst_relpath) ==
  IF DOMAIN fsel = {} THEN {dst_relpath}
  ELSE {s \in SrcAll : fs[src_path(s)].kind = "dir" /\ filter_dst(s) = dst_relpath}

SomeUnitFailed == \E i \in 1..Len(units) : units[i].st = "failed"

\* C13 as claimed: when the conversion of a submitted unit has raised, the
\* pass never gets to clean or fix_dir_stats, and when generate fails it
\* fails with the error of the conversion.
C13_FailedUnitRaisesItsError ==
  SomeUnitFailed =>
    /\ pc \notin {"clean", "fix", "done"}
    /\ pc = "failed" => err = "ConvertError"

\* C13 as amended: when the conversion of a submitted unit has raised, the
\* pass never gets to clean or fix_dir_stats; generate fails with the
\* conversion's error when it reaches the join, and with RuntimeError when
\* select_and_symlink yields a duplicate destination before that; and the
\* conversion routine is invoked once for a unit, whose failure stays.
C13_FailedUnitFailsPass ==
  /\ [](SomeUnitFailed =>
          /\ pc \notin {"clean", "fix", "done"}
          /\ pc = "failed" =>
               \/ err = "ConvertError"
               \/ err = "RuntimeError" /\ cur.dst \in DOMAIN relpath_dst_to_src)
  /\ [][(SomeUnitFailed /\ pc = "wait" /\ pc' # pc) =>
          (pc' = "failed" /\ err' = "ConvertError" /\ fs' = fs)]_vars
  /\ [][(invoked' # invoked /\ pass' = pass) =>
          \E i \in 1..Len(units) :
            /\ units[i].st = "queued" /\ units[i].src \notin invoked
            /\ invoked' = invoked \cup {units[i].src}
            /\ units'[i].st \in {"converted", "failed"}]_vars
  /\ [][\A i \in 1..Len(units) :
          (units[i].st = "failed" /\ pass' = pass) =>
             (Len(units') >= Len(units) /\ units'[i] = units[i])]_vars

\* generate has failed at the join with the error of a conversion, in a
\* pass in which another unit had completed.
C13_Witness ==
  /\ pc = "failed" /\ err = "ConvertError"
  /\ SomeUnitFailed
  /\ \E i \in 1..Len(units) : units[i].st = "done"

\* C14: recursive_scandir never recurses through a symlink: no path it
\* yields lies beneath a symlink, and a symlink is yielded once.
C14_ScanNeverFollowsSymlink ==
  pc \in {"scan", "done"} =>
    /\ \A i \in 1..Len(yielded) : \A k \in 1..(Len(yielded[i]) - 1) :
         ~islink(fs, dst_path(SubSeq(yielded[i], 1, k)))
    /\ \A i \in 1..Len(yielded) : \A j \in 1..Len(yielded) :
         (islink(fs, dst_path(yielded[i])) /\ yielded[i] = yielded[j]) => i = j

\* The relative paths of the files, symlinks and directories beneath D.
Beneath(f) == {Tail(p) : p \in {q \in DOMAIN f : q[1] = DstTop /\ Len(q) > 1}}

\* C15: a complete scan yields exactly the entries beneath the root, each
\* once, under its path relative to the root; a directory comes before all
\* the entries inside it when dir_first, and after all of them otherwise.
C15_ScanYieldsTreeOnce ==
  /\ pc \in {"scan", "done"} =>
       /\ \A i \in 1..Len(yielded) : yielded[i] \in Beneath(fs)
       /\ \A i \in 1..Len(yielded) : \A j \in 1..Len(yielded) :
            yielded[i] = yielded[j] => i = j
       /\ \A i \in 1..Len(yielded) : \A j \in 1..Len(yielded) :
            (IsPrefix(yielded[i], yielded[j]) /\ i # j) =>
               IF scan_dir_first THEN i < j ELSE j < i
  /\ pc = "done" => Range(yielded) = Beneath(fs)

\* Two entries of the listing have sanitized names that are equal after
\* case folding.
HasDuplicate(listing) ==
  \E i \in 1..Len(listing) : \E j \in 1..Len(listing) :
    /\ i # j
    /\ casefold(_sanitize_name(listing[i].name))
         = casefold(_sanitize_name(listing[j].name))

Sanitized(r) ==
  /\ \A i \in 1..Len(r) : r[i] \notin ForbiddenDeleted \cup ForbiddenReplaced
  /\ r \notin {<<".">>, <<".", ".">>}
  /\ LET stem == IF \E i \in 1..Len(r) : r[i] = "."
                 THEN SubSeq(r, 1, (CHOOSE i \in 1..Len(r) :
                                      r[i] = "." /\ \A j \in 1..(i - 1) : r[j] # ".") - 1)
                 ELSE r
     IN \A n \in ReservedNames :
          ~(/\ Len(n) = Len(stem)
            /\ \A i \in 1..Len(n) :
                 \/ stem[i] = n[i]
                 \/ \E k \in 1..Len(UpperCase) : stem[i] = UpperCase[k] /\ n[i] = LowerCase[k])
  /\ r # <<>> => r[Len(r)] \notin {".", " "}

\* The names the test expects for TestNames.
ExpectedNames ==
  <<<<"_">>, <<"C", "O", "N", "_">>, <<"l", "p", "t", "2", "_", ".", "t", "x", "t">>,
    <<"f", "o", "o", "_">>, <<"o", "k">>>>

\* C17: the result of _sanitize_name holds no forbidden character, is not
\* '.' or '..', has no reserved device name as its stem and ends with
\* neither '.' nor ' '; the names of the test become '_', 'CON_',
\* 'lpt2_.txt', 'foo_' and 'ok'; and every symlink generation makes is at
\* the sanitized name of the file it points to.
C17_SanitizedNamesAreLegal ==
  /\ \A d \in DOMAIN stree : \A i \in 1..Len(stree[d]) :
       Sanitized(_sanitize_name(stree[d][i].name))
  /\ \A i \in 1..Len(TestNames) : _sanitize_name(TestNames[i]) = ExpectedNames[i]
  /\ \A p \in DOMAIN links :
       /\ Sanitized(basename(p))
       /\ basename(p) = _sanitize_name(basename(links[p]))
  /\ \A k \in 1..Len(sframes) : \A i \in 1..Len(sframes[k].keep) :
       sframes[k].keep[i].dst
         = sanitized_join(sframes[k].dst, _sanitize_name(sframes[k].keep[i].entry.name))

\* Generation has symlinked the five files of the test.
C17_Witness ==
  /\ pc = "done"
  /\ DOMAIN links = {<<ExpectedNames[i]>> : i \in 1..Len(ExpectedNames)}
  /\ \A i \in 1..Len(TestNames) : links[<<ExpectedNames[i]>>] = <<TestNames[i]>>

\* C18: a profile without a parent performs no derivation: its generate
\* (RootProfile.generate) leaves the filesystem as it is, and src_path
\* called on it raises RuntimeError instead of returning a path.
C18_RootNeverDerives ==
  /\ [][(pc = "gen" /\ Head(gstack).at = "generate"
           /\ parent[Head(gstack).node] = 0) => fs' = fs]_vars
  /\ []((ret.call.node # 0 /\ parent[ret.call.node] = 0) =>
          ret.result = [raised |-> "RuntimeError", path |-> <<>>])

\* generate_all has run on a root whose src_path had raised, and the
\* generate of a derived profile beneath it has changed the filesystem.
C18_Witness ==
  /\ pc = "done"
  /\ ret.call.node = 1 /\ ret.result.raised = "RuntimeError"
  /\ glog[1].node = 1 /\ Len(glog) >= 4
  /\ fs # SrcTree

\* select_and_symlink is taking the source file s from its walk.
SelectingFile(s) ==
  /\ pc = "select" /\ pc' = "check"
  /\ s = Head(todo)
  /\ ~is_dir(fs, src_path(s))

\* Outside the subtree at d, f2 holds what f1 holds, up to the
\* modification time of the directory that holds d.
SameExceptAt(f1, f2, d) ==
  /\ \A q \in DOMAIN f1 : ~IsPrefix(d, q) => q \in DOMAIN f2
  /\ \A q \in DOMAIN f2 : ~IsPrefix(d, q) =>
       /\ q \in DOMAIN f1
       /\ q # dirname(d) => f2[q] = f1[q]

\* C19: for a source file mapped to a conversion destination,
\* select_and_symlink decides: destination absent, conversion needed and
\* nothing removed; a directory, removed with all it holds and conversion
\* needed; a regular file with the source's modification time, kept and no
\* conversion; anything else (regular file with another modification time,
\* symlink), removed and conversion needed.  Conversion is never reported
\* needed with the old destination left in place.
C19_StalenessDecision ==
  [][\A s \in SrcFiles :
       (SelectingFile(s) /\ select[s] # None) =>
          LET dst_relpath == Append(dirname(s), select[s])
              d == dst_path(dst_relpath)
          IN /\ cur'.src = s /\ cur'.dst = dst_relpath
             /\ SameExceptAt(fs, fs', d)
             /\ cur'.convert => \A q \in DOMAIN fs' : ~IsPrefix(d, q)
             /\ IF ~lexists(fs, d) THEN cur'.convert /\ fs' = fs
                ELSE IF fs[d].kind = "dir" THEN cur'.convert
                ELSE IF fs[d].kind = "file" /\ fs[d].mtime = fs[src_path(s)].mtime
                THEN ~cur'.convert /\ fs' = fs
                ELSE cur'.convert]_vars

\* select_and_symlink has removed a regular file whose modification time
\* was not the source's and has asked for the conversion.
C19_Witness ==
  /\ pc = "check" /\ pass = 1 /\ units = <<>>
  /\ cur = [src |-> <<"b">>, dst |-> <<"c">>, convert |-> TRUE]
  /\ dst_path(<<"c">>) \in DOMAIN fs0
  /\ fs0[dst_path(<<"c">>)].kind = "file"
  /\ fs0[dst_path(<<"c">>)].mtime # fs[src_path(<<"b">>)].mtime
  /\ dst_path(<<"c">>) \notin DOMAIN fs

\* C20: for a source file for which select_cb returns None,
\* select_and_symlink removes whatever is at the same relative path of the
\* destination (a directory with all it holds) and leaves there a newly
\* made symlink to the source file, an identical symlink being replaced
\* too (the directory holding it is modified), and reports that no
\* conversion is needed.
C20_NoneAlwaysRelinks ==
  [][\A s \in SrcFiles :
       (SelectingFile(s) /\ select[s] = None) =>
          LET d == dst_path(s)
          IN /\ cur' = [src |-> s, dst |-> s, convert |-> FALSE]
             /\ SameExceptAt(fs, fs', d)
             /\ \A q \in DOMAIN fs' : IsPrefix(d, q) => q = d
             /\ d \in DOMAIN fs' /\ fs'[d] = Link(src_path(s))
             /\ RealPath(fs', d, TRUE) = src_path(s)
             /\ fs'[dirname(d)].mtime = FreshMtime]_vars

\* select_and_symlink has put the symlink where a directory holding a file
\* was.
C20_Witness ==
  /\ pc = "check" /\ pass = 1
  /\ cur = [src |-> <<"a">>, dst |-> <<"a">>, convert |-> FALSE]
  /\ dst_path(<<"a", "a">>) \in DOMAIN fs0
  /\ fs[dst_path(<<"a">>)] = Link(src_path(<<"a">>))

\* C21: for a source directory, select_and_symlink leaves a real directory
\* at the same relative path of the destination: a real directory already
\* there is kept with all it holds, anything else there is removed first,
\* and the path is yielded as needing no conversion; and no entry inside a
\* source directory is processed unless that directory is there.
C21_DirectoryMadeBeforeContents ==
  /\ [][\A s \in {<<"d">>} :
          (pc = "select" /\ pc' = "check" /\ s = Head(todo)
             /\ is_dir(fs, src_path(s))) =>
             LET d == dst_path(s)
             IN /\ cur' = [src |-> s, dst |-> s, convert |-> FALSE]
                /\ d \in DOMAIN fs' /\ fs'[d].kind = "dir"
                /\ SameExceptAt(fs, fs', d)
                /\ IF d \in DOMAIN fs /\ fs[d].kind = "dir" THEN fs' = fs
                   ELSE \A q \in DOMAIN fs' : IsPrefix(d, q) => q = d]_vars
  /\ []((pc = "select" /\ todo # <<>> /\ Len(Head(todo)) > 1) =>
          LET d == dst_path(dirname(Head(todo)))
          IN d \in DOMAIN fs /\ fs[d].kind = "dir")

\* select_and_symlink has put a directory where a symlink to the source
\* directory was.
C21_Witness ==
  /\ pc = "check" /\ pass = 1
  /\ cur = [src |-> <<"d">>, dst |-> <<"d">>, convert |-> FALSE]
  /\ dst_path(<<"d">>) \in DOMAIN fs0 /\ fs0[dst_path(<<"d">>)].kind = "link"
  /\ fs[dst_path(<<"d">>)].kind = "dir"

\* The entries of the source tree, by their relative paths.
SrcEntries == {Tail(p) : p \in {q \in DOMAIN fs : q[1] = SrcTop /\ Len(q) > 1}}

\* The selection function keeps s and every directory above it.
Kept(s) == \A k \in 1..Len(s) : fsel[SubSeq(s, 1, k)] # "drop"

KeptFiles == {s \in SrcEntries : fs[src_path(s)].kind # "dir" /\ Kept(s)}

KeptDirs == {s \in SrcEntries : fs[src_path(s)].kind = "dir" /\ Kept(s)}

RECURSIVE FilterDstPath(_)
\* The destination path of the kept source entry s, renames applied.
FilterDstPath(s) ==
  IF s = <<>> THEN <<>>
  ELSE Append(FilterDstPath(dirname(s)),
              IF fsel[s] = "ren" THEN RenamedName ELSE basename(s))

\* C22: after a successful FilterProfile.generate, whatever symlinks and
\* directories the destination held before, the destination holds exactly
\* one symlink for every kept non-directory, at its destination path and
\* pointing to that source entry, and the directories enclosing those
\* symlinks: no regular file, nothing of an earlier pass.
C22_FilterOutputIsExactlyKeptLinks ==
  pc = "done" =>
    /\ DstLinks(fs) = {dst_path(FilterDstPath(s)) : s \in KeptFiles}
    /\ \A s \in KeptFiles : fs[dst_path(FilterDstPath(s))].target = src_path(s)
    /\ \A s1 \in KeptFiles : \A s2 \in KeptFiles :
         FilterDstPath(s1) = FilterDstPath(s2) => s1 = s2
    /\ DstDirs(fs) = UNION {{SubSeq(p, 1, k) : k \in 2..(Len(p) - 1)} : p \in DstLinks(fs)}
    /\ DstFiles(fs) = {}

\* A pass has ended well on a destination that held a symlink and a
\* directory with a symlink, all gone now, with renamed entries kept.
C22_Witness ==
  /\ pc = "done" /\ pass = 1
  /\ dst_path(<<"c">>) \in DstLinks(fs0)
  /\ dst_path(<<"d", "a">>) \in DstLinks(fs0)
  /\ DstLinks(fs) = {dst_path(<<"c", "c">>), dst_path(<<"c", "d", "b">>)}

\* Some kept non-directory lies in the source subtree of directory s.
KeepsBeneath(s) == \E t \in KeptFiles : IsPrefix(s, t)

\* C23: a FilterProfile makes a destination directory only on demand: after
\* generate, the destination directories are exactly those of the kept
\* source directories with a kept non-directory somewhere in their subtree,
\* so a kept directory with nothing kept beneath it (and a top directory
\* with nothing kept) leaves no destination entry (at its destination path
\* there is nothing, or the symlink of a kept file renamed to that name);
\* the selection function has been called once for the top and once for
\* every kept directory.
C23_DirectoriesOnDemand ==
  pc = "done" =>
    /\ DstDirs(fs) = {dst_path(FilterDstPath(s)) : s \in {k \in KeptDirs : KeepsBeneath(k)}}
    /\ \A s \in KeptDirs :
         ~KeepsBeneath(s) =>
           LET p == dst_path(FilterDstPath(s))
           IN p \in DOMAIN fs =>
                \E t \in KeptFiles : /\ dst_path(FilterDstPath(t)) = p
                                     /\ fs[p] = Link(src_path(t))
    /\ KeptFiles = {} => {p \in DOMAIN fs : p[1] = DstTop} = {<<DstTop>>}
    /\ calls = 1 + Cardinality(KeptDirs)

\* A pass has ended with both directories kept, nothing kept in the outer
\* one but the inner one, and the inner one's file kept: both directories
\* exist in the destination, where there was none.
C23_Witness ==
  /\ pc = "done" /\ pass = 1
  /\ fsel[<<"d">>] = "same" /\ fsel[<<"d", "a">>] = "drop"
  /\ fsel[<<"d", "d">>] = "same" /\ fsel[<<"d", "d", "b">>] = "same"
  /\ dst_path(<<"d">>) \notin DOMAIN fs0
  /\ DstDirs(fs) = {dst_path(<<"d">>), dst_path(<<"d", "d">>)}
  /\ calls = 3

\* The destination paths of the current source entries.
CurrentDst == {dst_of(fs, select, s) : s \in SrcEntries}

\* Every recorded change was followed by the pass that has just ended well.
ChangedBeforePass ==
  /\ pc = "done" /\ changes # <<>>
  /\ \A i \in 1..Len(changes) : changes[i].pass < pass

\* C24 as claimed: when a source file or directory was deleted, or the
\* destination of a file changed, after a successful pass, then after the
\* next successful pass the old destination path does not exist.
C24_OldDestinationGone ==
  ChangedBeforePass =>
    \A i \in 1..Len(changes) : \A p \in changes[i].old :
      dst_path(p) \notin DOMAIN fs

\* C24 as amended: after the next successful pass the old destination path
\* does not exist unless it is now the destination of another current
\* source entry, and every entry of the destination is at the destination
\* path of a current source directory, symlinked file or converted file.
C24_StaleOutputsRemoved ==
  ChangedBeforePass =>
    /\ \A i \in 1..Len(changes) : \A p \in changes[i].old :
         p \notin CurrentDst => dst_path(p) \notin DOMAIN fs
    /\ \A q \in DOMAIN fs : (q[1] = DstTop /\ Len(q) > 1) => Tail(q) \in CurrentDst

\* The source directory was deleted after the first pass and the second
\* pass has ended well: the destination directory and what it held are gone.
C24_Witness ==
  /\ ChangedBeforePass /\ pass = 2
  /\ src_path(<<"d">>) \notin DOMAIN fs
  /\ dst_path(<<"d">>) \in DOMAIN fs0
  /\ \E q \in DOMAIN fs0 : IsPrefix(dst_path(<<"d">>), q) /\ q # dst_path(<<"d">>)
  /\ \A q \in DOMAIN fs : ~IsPrefix(dst_path(<<"d">>), q)

\* File b is converted to the path of file a, which is symlinked.
DupWithLink == select[<<"b">>] = "a" /\ select[<<"a">>] = None

\* File b is converted to the path of the source directory d.
DupWithDir == select[<<"b">>] = "d"

Unfinished(i) == units[i].st # "done"

\* The regular file at destination path d carries the modification time of
\* no source file: it was written and copystat never reached it.
LeftUnfinished(f, d) ==
  d \in DOMAIN f /\ f[d].kind = "file" /\ f[d].mtime = FreshMtime

C27_GenerateErrorStopsTraversal ==
  (\E i \in 1..Len(glog) : glog[i].ev = "raise") =>
    LET root  == glog[1].node
        order == PreOrder(root)
        k     == Len(GenerateCalls)
        last  == glog[Len(glog)]
    IN /\ pc = "failed" /\ gstack = <<>> /\ err # ""
       /\ last.ev = "raise"
       /\ k <= Len(order)
       /\ GenerateCalls = SubSeq(order, 1, k)
       /\ order[k] = last.node
       /\ \A i \in (k + 1)..Len(order) :
            [ev |-> "call", node |-> order[i]] \notin Range(glog)
       /\ \A i \in 1..(k - 1) :
            /\ [ev |-> "return", node |-> order[i]] \in Range(glog)
            /\ parent[order[i]] # 0 => fs[top_dir(order[i])] = Dir(FreshMtime)

\* The generate of profile 3 has raised: its sibling 2 was generated before
\* it, its child 4 and its later sibling 5 were never reached.
C27_Witness ==
  /\ pc = "failed" /\ parent = <<0, 1, 1, 3, 1>>
  /\ glog[Len(glog)] = [ev |-> "raise", node |-> 3]
  /\ GenerateCalls = <<1, 2, 3>>
  /\ fs[top_dir(2)] = Dir(FreshMtime)

\* C28 as claimed: _sanitize_name turns every non-empty name into a
\* non-empty one, so every kept entry has a destination of its own inside
\* the destination directory being processed: no file is given the path of
\* that directory, and no directory is processed into the destination of
\* its parent.
C28_SanitizedEntryInsideItsDirectory ==
  /\ \A d \in DOMAIN stree : \A i \in 1..Len(stree[d]) :
       stree[d][i].name # <<>> => _sanitize_name(stree[d][i].name) # <<>>
  /\ \A k \in 1..Len(sframes) : \A i \in 1..Len(sframes[k].keep) :
       LET dst == sframes[k].keep[i].dst
       IN dst # sframes[k].dst /\ dst # <<>> /\ dirname(dst) = sframes[k].dst
  /\ \A k \in 1..Len(sframes) : Len(sframes[k].dst) = Len(sframes[k].src)

====
